---- MODULE Spec2Model ----
(***************************************************************************)
(* The goyave validation engine (validation/validator.go): the rule        *)
(* registry, the rule token parser, the validation executor and the        *)
(* message composer, together with the date-comparison validators whose    *)
(* tests are in the repository.                                            *)
(*                                                                         *)
(* Go strings that the code inspects character by character (rule tokens,  *)
(* rule names, parameters, string values, language entries) are sequences  *)
(* of one-character strings.  Field names are only used as map keys and    *)
(* are TLA+ strings.                                                       *)
(***************************************************************************)
EXTENDS Integers, Sequences, FiniteSets, TLC

VARIABLES
    validationRules,            \* map[string]Rule: rule name -> behaviour
    typeDependentMessageRules,  \* []string
    last,                       \* the call in progress: its arguments and its outcome
    calls                       \* the Validate calls that run concurrently: their locals

vars == <<validationRules, typeDependentMessageRules, last, calls>>

(***************************************************************************)
(* String literals.                                                        *)
(***************************************************************************)
sRequired == <<"r", "e", "q", "u", "i", "r", "e", "d">>
sNullable == <<"n", "u", "l", "l", "a", "b", "l", "e">>
sArray == <<"a", "r", "r", "a", "y">>
sNumeric == <<"n", "u", "m", "e", "r", "i", "c">>
sMin == <<"m", "i", "n">>
sString == <<"s", "t", "r", "i", "n", "g">>
sFile == <<"f", "i", "l", "e">>
sUnsupported == <<"u", "n", "s", "u", "p", "p", "o", "r", "t", "e", "d">>
sNewRule == <<"n", "e", "w", "_", "r", "u", "l", "e">>
sInvalidRule == <<"i", "n", "v", "a", "l", "i", "d", "r", "u", "l", "e">>
sInvalidCommaRule == <<"i", "n", "v", "a", "l", "i", "d", ",", "r", "u", "l", "e">>
sNamespace == <<"v", "a", "l", "i", "d", "a", "t", "i", "o", "n", ".", "r", "u", "l", "e", "s", ".">>
sDotArray == <<".", "a", "r", "r", "a", "y">>
sMalformedJSON == <<"M", "a", "l", "f", "o", "r", "m", "e", "d", " ", "J", "S", "O", "N">>
sMalformedRequest == <<"M", "a", "l", "f", "o", "r", "m", "e", "d", " ", "r", "e", "q", "u", "e", "s", "t">>
sHi == <<"h", "i">>
sHello == <<"h", "e", "l", "l", "o">>
sSame == <<"s", "a", "m", "e">>
sTwelve == <<"1", "2">>

(***************************************************************************)
(* strings.Index, strings.Count and strings.Split for a one-character      *)
(* separator, as parseRule uses them.                                      *)
(***************************************************************************)
RECURSIVE IndexFrom(_, _, _)
IndexFrom(s, c, i) ==
    IF i > Len(s) THEN -1
    ELSE IF s[i] = c THEN i - 1
    ELSE IndexFrom(s, c, i + 1)

\* 0-based index of the first c in s, -1 when there is none
Index(s, c) == IndexFrom(s, c, 1)

Count(s, c) == Cardinality({i \in 1..Len(s) : s[i] = c})

RECURSIVE Split(_, _)
Split(s, c) ==
    LET i == Index(s, c)
    IN  IF i = -1 THEN <<s>>
        ELSE <<SubSeq(s, 1, i)>> \o Split(SubSeq(s, i + 2, Len(s)), c)

\* helper.Contains on a slice of strings
Contains(list, x) == \E i \in 1..Len(list) : list[i] = x

(***************************************************************************)
(* The registry after init().  Only the built-in rules whose behaviour the *)
(* model defines are listed; the other built-ins are registered the same   *)
(* way and differ only in their behaviour.                                 *)
(***************************************************************************)
InitValidationRules ==
    (sRequired :> "validateRequired") @@ (sNumeric :> "validateNumeric")
    @@ (sMin :> "validateMin") @@ (sString :> "validateString")
    @@ (sArray :> "validateArray") @@ (sSame :> "validateSame")

InitTypeDependentMessageRules == <<sMin>>

typeRules == <<sNumeric, sString>>

isTypeDependent(rule) == Contains(typeDependentMessageRules, rule)

isArrayType(rule) == Contains(typeRules, rule)

isRequired(field) == Contains(field, sRequired)

isNullable(field) == Contains(field, sNullable)

isArray(field) == Contains(field, sArray)

NoPanic == ""

Idle == [op |-> "idle"]

(***************************************************************************)
(* AddRule.  log.Panicf leaves the maps as they were.                      *)
(***************************************************************************)
AddRuleNoExistsCheck(name, typeDependentMessage, rule) ==
    /\ last = Idle
    /\ UNCHANGED calls
    /\ validationRules' =
           [n \in DOMAIN validationRules \cup {name} |->
               IF n = name THEN rule ELSE validationRules[n]]
    /\ typeDependentMessageRules' =
           IF typeDependentMessage
           THEN Append(typeDependentMessageRules, name)
           ELSE typeDependentMessageRules
    /\ last' = [op |-> "AddRule", name |-> name,
                typeDependentMessage |-> typeDependentMessage,
                rule |-> rule,
                panic |-> IF name \in DOMAIN validationRules
                          THEN "Rule already exists" ELSE NoPanic]

AddRule(name, typeDependentMessage, rule) ==
    /\ last = Idle
    /\ UNCHANGED calls
    /\ IF name \in DOMAIN validationRules
       THEN /\ UNCHANGED <<validationRules, typeDependentMessageRules>>
            /\ last' = [op |-> "AddRule", name |-> name,
                        typeDependentMessage |-> typeDependentMessage,
                        rule |-> rule, panic |-> "Rule already exists"]
       ELSE /\ validationRules' =
                   [n \in DOMAIN validationRules \cup {name} |->
                       IF n = name THEN rule ELSE validationRules[n]]
            /\ typeDependentMessageRules' =
                   IF typeDependentMessage
                   THEN Append(typeDependentMessageRules, name)
                   ELSE typeDependentMessageRules
            /\ last' = [op |-> "AddRule", name |-> name,
                        typeDependentMessage |-> typeDependentMessage,
                        rule |-> rule, panic |-> NoPanic]

(***************************************************************************)
(* parseRule.  The result carries the panic, if any; ruleName[0] on an     *)
(* empty name is Go's index-out-of-range runtime panic.                    *)
(***************************************************************************)
ParsePanic(why) ==
    [panic |-> why, ruleName |-> <<>>, validatesArray |-> FALSE, params |-> <<>>]

parseRule(rule) ==
    LET indexName == Index(rule, ":")
        candidate == IF indexName = -1 THEN rule ELSE SubSeq(rule, 1, indexName)
        params == IF indexName = -1 THEN <<>>
                  ELSE Split(SubSeq(rule, indexName + 2, Len(rule)), ",")
    IN  IF indexName = -1 /\ Count(rule, ",") > 0 THEN ParsePanic("Invalid rule")
        ELSE IF Len(candidate) = 0 THEN ParsePanic("index out of range")
        ELSE LET validatesArray == candidate[1] = ">"
                 ruleName == IF validatesArray THEN Tail(candidate) ELSE candidate
             IN  IF ruleName \notin DOMAIN validationRules
                 THEN ParsePanic("Rule doesn't exist")
                 ELSE [panic |-> NoPanic, ruleName |-> ruleName,
                       validatesArray |-> validatesArray, params |-> params]

\* A caller parses one token (TestParseRule).
ParseRule(rule) ==
    /\ last = Idle
    /\ last' = [op |-> "parseRule", rule |-> rule, result |-> parseRule(rule)]
    /\ UNCHANGED <<validationRules, typeDependentMessageRules, calls>>

\* The caller has its result (or has recovered the panic) and goes on.
Return ==
    /\ last # Idle
    /\ last' = Idle
    /\ UNCHANGED <<validationRules, typeDependentMessageRules, calls>>

(***************************************************************************)
(* Values of the data tree, by reflect.Kind.  A slice carries its element  *)
(* type: "interface" for []interface{} (a decoded JSON array), else the    *)
(* kind of its elements ([]string, []float64, ...).                         *)
(***************************************************************************)
Nil == [kind |-> "invalid"]

StringV(s) == [kind |-> "string", str |-> s]

Float64V(n) == [kind |-> "float64", num |-> n]

BoolV(b) == [kind |-> "bool", b |-> b]

SliceV(t, es) == [kind |-> "slice", etype |-> t, elems |-> es]

\* no value: the key is not in the map
Absent == [absent |-> TRUE]

\* data[fieldName]: the zero value (nil) for a missing key
Get(data, fieldName) ==
    IF fieldName \in DOMAIN data THEN data[fieldName] ELSE Nil

\* delete(data, fieldName)
Delete(data, fieldName) ==
    [k \in DOMAIN data \ {fieldName} |-> data[k]]

\* data[fieldName] = v
Put(data, fieldName, v) ==
    [k \in DOMAIN data \cup {fieldName} |-> IF k = fieldName THEN v ELSE data[k]]

\* kinds whose name starts with "int", "uint" (but uintptr) or "float"
NumericKinds == {"int", "float64"}

\* reflect.ValueOf(v): the kind of v and, for a slice, its element type
ReflectValueOf(v) ==
    [kind |-> v.kind, etype |-> IF v.kind = "slice" THEN v.etype ELSE ""]

\* list.Index(i): an element of a []interface{} is a reflect.Value of kind
\* Interface, an element of a typed slice has the kind of its type
ReflectIndex(list, i) ==
    IF list.etype = "interface"
    THEN [kind |-> "interface", etype |-> ""]
    ELSE ReflectValueOf(list.elems[i])

getFieldType(value) ==
    IF value.kind \in NumericKinds THEN sNumeric
    ELSE IF value.kind = "string" THEN sString
    ELSE IF value.kind = "slice"
         THEN (IF value.etype = "filesystem.File" THEN sFile ELSE sArray)
    ELSE sUnsupported

GetFieldType(value) == getFieldType(ReflectValueOf(value))

(***************************************************************************)
(* The message composer.  lang.Get is the external message store: the      *)
(* message is identified with its language entry.                          *)
(***************************************************************************)
getMessage(rule, value, inArray) ==
    sNamespace \o rule
    \o (IF isTypeDependent(rule) THEN <<".">> \o getFieldType(value) ELSE <<>>)
    \o (IF inArray THEN sDotArray ELSE <<>>)

(***************************************************************************)
(* Rule behaviours.  A behaviour gets (field, value, parameters, form) and *)
(* yields its verdict and the form as it leaves it.                        *)
(***************************************************************************)
RuleResult(ok, form) == [ok |-> ok, form |-> form, panic |-> NoPanic]

RulePanic(form, why) == [ok |-> FALSE, form |-> form, panic |-> why]

Digits == {"0", "1", "2", "3", "4", "5", "6", "7", "8", "9"}

DigitValue(c) ==
    CASE c = "0" -> 0 [] c = "1" -> 1 [] c = "2" -> 2 [] c = "3" -> 3
      [] c = "4" -> 4 [] c = "5" -> 5 [] c = "6" -> 6 [] c = "7" -> 7
      [] c = "8" -> 8 [] c = "9" -> 9

RECURSIVE DigitsValue(_)
DigitsValue(s) ==
    IF Len(s) = 0 THEN 0
    ELSE 10 * DigitsValue(SubSeq(s, 1, Len(s) - 1)) + DigitValue(s[Len(s)])

\* strconv.ParseFloat on the unsigned decimal integers the model uses
ParseFloat(s) ==
    IF Len(s) > 0 /\ \A i \in 1..Len(s) : s[i] \in Digits
    THEN [err |-> FALSE, val |-> DigitsValue(s)]
    ELSE [err |-> TRUE, val |-> 0]

\* RequireParametersCount panics when fewer than count parameters are given
RequireParametersCount(rule, params, count) == Len(params) >= count

validateRequired(field, value, params, form) ==
    RuleResult(/\ field \in DOMAIN form
               /\ ~(value.kind = "string" /\ Len(value.str) = 0)
               /\ ~(value.kind = "slice" /\ Len(value.elems) = 0),
               form)

validateNumeric(field, value, params, form) ==
    IF value.kind \in NumericKinds THEN RuleResult(TRUE, form)
    ELSE IF value.kind = "string"
         THEN LET f == ParseFloat(value.str)
              IN  IF f.err THEN RuleResult(FALSE, form)
                  ELSE RuleResult(TRUE, Put(form, field, Float64V(f.val)))
    ELSE RuleResult(FALSE, form)

validateMin(field, value, params, form) ==
    IF ~RequireParametersCount(sMin, params, 1)
    THEN RulePanic(form, "Rule requires parameter(s)")
    ELSE LET min == ParseFloat(params[1])
             t == GetFieldType(value)
         IN  IF min.err THEN RulePanic(form, "strconv.ParseFloat")
             ELSE IF t = sNumeric THEN RuleResult(value.num >= min.val, form)
             ELSE IF t = sString THEN RuleResult(Len(value.str) >= min.val, form)
             ELSE IF t = sArray THEN RuleResult(Len(value.elems) >= min.val, form)
             ELSE RuleResult(TRUE, form)

validateString(field, value, params, form) ==
    RuleResult(value.kind = "string", form)

validateArray(field, value, params, form) ==
    RuleResult(GetFieldType(value) = sArray, form)

\* form[name] for a name given as a rule parameter; the field names of the
\* model are one character long
Other(form, name) ==
    IF Len(name) = 1 /\ name[1] \in DOMAIN form THEN form[name[1]] ELSE Absent

\* the value equals the value of the field named by the parameter, read from
\* the form as it is when the rule runs
validateSame(field, value, params, form) ==
    IF ~RequireParametersCount(sSame, params, 1)
    THEN RulePanic(form, "Rule requires parameter(s)")
    ELSE LET other == Other(form, params[1])
         IN  IF other = Absent THEN RuleResult(FALSE, form)
             ELSE IF GetFieldType(value) # GetFieldType(other)
             THEN RuleResult(FALSE, form)
             ELSE IF GetFieldType(value) = sNumeric
             THEN RuleResult(value.num = other.num, form)
             ELSE IF GetFieldType(value) = sString
             THEN RuleResult(value.str = other.str, form)
             ELSE IF GetFieldType(value) = sArray
             THEN RuleResult(value.elems = other.elems, form)
             ELSE RuleResult(FALSE, form)

\* validationRules[ruleName](field, value, params, form)
Apply(rule, field, value, params, form) ==
    CASE rule = "validateRequired" -> validateRequired(field, value, params, form)
      [] rule = "validateNumeric" -> validateNumeric(field, value, params, form)
      [] rule = "validateMin" -> validateMin(field, value, params, form)
      [] rule = "validateString" -> validateString(field, value, params, form)
      [] rule = "validateArray" -> validateArray(field, value, params, form)
      [] rule = "validateSame" -> validateSame(field, value, params, form)
      [] rule = "ruleTrue" -> RuleResult(TRUE, form)
      [] rule = "ruleFalse" -> RuleResult(FALSE, form)

(***************************************************************************)
(* The validation executor.  A run carries the data tree, the errors, the  *)
(* panic that ended it (if any) and a record of what the run did: the      *)
(* tokens it reached, the behaviours it invoked, the messages it appended  *)
(* and the array conversions.                                              *)
(***************************************************************************)
Panicked(st, why) == [st EXCEPT !.panic = why]

Logged(st, e) == [st EXCEPT !.log = Append(@, e)]

\* errors[fieldName] = []string{message}: the latest message only
AppendErrorReplaces(errors, fieldName, message) ==
    [k \in DOMAIN errors \cup {fieldName} |->
        IF k = fieldName THEN <<message>> ELSE errors[k]]

\* errors[fieldName] = append(errors[fieldName], message)
AppendError(errors, fieldName, message) ==
    [k \in DOMAIN errors \cup {fieldName} |->
        IF k = fieldName
        THEN Append(IF k \in DOMAIN errors THEN errors[k] ELSE <<>>, message)
        ELSE errors[k]]

\* v.Set(x) panics unless x is assignable to the slice's element type
Assignable(x, etype) ==
    IF etype = "interface" THEN x.kind # "invalid" ELSE x.kind = etype

\* the loop that goes on to the next element after a failing one
RECURSIVE arrayLoopPastFailure(_, _, _, _, _, _, _)
arrayLoopPastFailure(ruleName, fieldName, pos, params, list, i, log) ==
    IF i > Len(list.elems)
    THEN [panic |-> NoPanic, failed |-> FALSE, at |-> 0, list |-> list, log |-> log]
    ELSE LET value == list.elems[i]
             tmpData == (fieldName :> value)
             r == Apply(validationRules[ruleName], fieldName, value, params, tmpData)
             log1 == Append(log, [ev |-> "rule", field |-> fieldName, pos |-> pos,
                                  rule |-> ruleName, index |-> i, value |-> value,
                                  ok |-> r.ok, panicked |-> r.panic # NoPanic])
             rest == arrayLoopPastFailure(ruleName, fieldName, pos, params,
                                          list, i + 1, log1)
         IN  IF r.panic # NoPanic
             THEN [panic |-> r.panic, failed |-> FALSE, at |-> 0,
                   list |-> list, log |-> log1]
             ELSE IF ~r.ok
             THEN [rest EXCEPT !.failed = rest.panic = NoPanic,
                               !.at = IF rest.panic = NoPanic THEN i ELSE 0]
             ELSE rest

\* the loop of validateRuleInArray from element i on (1-based)
RECURSIVE arrayLoop(_, _, _, _, _, _, _)
arrayLoop(ruleName, fieldName, pos, params, list, i, log) ==
    IF i > Len(list.elems)
    THEN [panic |-> NoPanic, failed |-> FALSE, at |-> 0, list |-> list, log |-> log]
    ELSE LET value == list.elems[i]
             tmpData == (fieldName :> value)
             r == Apply(validationRules[ruleName], fieldName, value, params, tmpData)
             log1 == Append(log, [ev |-> "rule", field |-> fieldName, pos |-> pos,
                                  rule |-> ruleName, index |-> i, value |-> value,
                                  ok |-> r.ok, panicked |-> r.panic # NoPanic])
         IN  IF r.panic # NoPanic
             THEN [panic |-> r.panic, failed |-> FALSE, at |-> 0,
                   list |-> list, log |-> log1]
             ELSE IF ~r.ok
             THEN [panic |-> NoPanic, failed |-> TRUE, at |-> i,
                   list |-> list, log |-> log1]
             ELSE IF ~Assignable(Get(r.form, fieldName), list.etype)
             THEN [panic |-> "reflect.Value.Set", failed |-> FALSE, at |-> 0,
                   list |-> list, log |-> log1]
             ELSE arrayLoop(ruleName, fieldName, pos, params,
                            [list EXCEPT !.elems[i] = Get(r.form, fieldName)],
                            i + 1, log1)

\* the element loop without the check that the field holds an array
validateRuleInArrayUnchecked(ruleName, fieldName, pos, data, params, log) ==
    IF Get(data, fieldName).kind # "slice"
    THEN [panic |-> NoPanic, failed |-> FALSE, at |-> 0,
          list |-> Get(data, fieldName), log |-> log]
    ELSE arrayLoop(ruleName, fieldName, pos, params, Get(data, fieldName), 1, log)

\* The result's "at" is the index of the element returned (&v), 0 for nil.
validateRuleInArray(ruleName, fieldName, pos, data, params, log) ==
    IF GetFieldType(Get(data, fieldName)) # sArray
    THEN [panic |-> "Cannot validate array values on non-array field",
          failed |-> FALSE, at |-> 0, list |-> Get(data, fieldName), log |-> log]
    ELSE arrayLoop(ruleName, fieldName, pos, params, Get(data, fieldName), 1, log)

\* reflect.SliceOf(reflect.TypeOf(nil)) dereferences a nil Type
convertArray(isJSON, fieldName, field, data) ==
    IF ~isJSON /\ isArray(field) /\ Get(data, fieldName).kind # "slice"
    THEN IF Get(data, fieldName) = Nil
         THEN [panic |-> "nil pointer dereference", data |-> data]
         ELSE [panic |-> NoPanic,
               data |-> Put(data, fieldName,
                            SliceV(Get(data, fieldName).kind,
                                   <<Get(data, fieldName)>>))]
    ELSE [panic |-> NoPanic, data |-> data]

\* one iteration of the loop over the field's rules, for the token at pos
runRule(fieldName, field, pos, st) ==
    LET st0 == Logged(st, [ev |-> "token", field |-> fieldName, pos |-> pos,
                           value |-> Get(st.data, fieldName)])
        p == parseRule(field[pos])
    IN  IF p.panic # NoPanic THEN Panicked(st0, p.panic)
        ELSE IF p.validatesArray
        THEN LET r == validateRuleInArray(p.ruleName, fieldName, pos, st0.data,
                                          p.params, st0.log)
                 d == IF r.list = Nil THEN st0.data ELSE Put(st0.data, fieldName, r.list)
             IN  IF r.panic # NoPanic
                 THEN [st0 EXCEPT !.panic = r.panic, !.log = r.log, !.data = d]
                 ELSE IF r.failed
                 THEN LET m == getMessage(p.ruleName, ReflectIndex(r.list, r.at), TRUE)
                      IN  [st0 EXCEPT !.data = d,
                               !.errors = AppendError(@, fieldName, m),
                               !.log = Append(r.log, [ev |-> "msg", field |-> fieldName,
                                                      pos |-> pos, key |-> m])]
                 ELSE [st0 EXCEPT !.data = d, !.log = r.log]
        ELSE LET value == Get(st0.data, fieldName)
                 r == Apply(validationRules[p.ruleName], fieldName, value,
                            p.params, st0.data)
                 st1 == [st0 EXCEPT !.data = r.form,
                            !.log = Append(@, [ev |-> "rule", field |-> fieldName,
                                               pos |-> pos, rule |-> p.ruleName,
                                               index |-> 0, value |-> value,
                                               ok |-> r.ok,
                                               panicked |-> r.panic # NoPanic])]
             IN  IF r.panic # NoPanic THEN Panicked(st1, r.panic)
                 ELSE IF ~r.ok
                 THEN LET m == getMessage(p.ruleName,
                                          ReflectValueOf(Get(st1.data, fieldName)), FALSE)
                      IN  [st1 EXCEPT !.errors = AppendError(@, fieldName, m),
                               !.log = Append(@, [ev |-> "msg", field |-> fieldName,
                                                  pos |-> pos, key |-> m])]
                 ELSE st1

\* the loop with "continue" where the nullable marker meets a nil value
RECURSIVE runRulesNullableContinues(_, _, _, _)
runRulesNullableContinues(fieldName, field, pos, st) ==
    IF pos > Len(field) \/ st.panic # NoPanic THEN st
    ELSE IF field[pos] = sNullable
    THEN runRulesNullableContinues(fieldName, field, pos + 1, st)
    ELSE runRulesNullableContinues(fieldName, field, pos + 1,
                                   runRule(fieldName, field, pos, st))

\* the loop that ends on a nil value when the marker is anywhere in the list
RECURSIVE runRulesNullableAnywhere(_, _, _, _)
runRulesNullableAnywhere(fieldName, field, pos, st) ==
    IF pos > Len(field) \/ st.panic # NoPanic THEN st
    ELSE IF isNullable(field) /\ Get(st.data, fieldName) = Nil THEN st
    ELSE IF field[pos] = sNullable
    THEN runRulesNullableAnywhere(fieldName, field, pos + 1, st)
    ELSE runRulesNullableAnywhere(fieldName, field, pos + 1,
                                  runRule(fieldName, field, pos, st))

\* the loop over the field's rules from position pos on
RECURSIVE runRules(_, _, _, _)
runRules(fieldName, field, pos, st) ==
    IF pos > Len(field) \/ st.panic # NoPanic THEN st
    ELSE IF field[pos] = sNullable
    THEN (IF Get(st.data, fieldName) = Nil THEN st
          ELSE runRules(fieldName, field, pos + 1, st))
    ELSE runRules(fieldName, field, pos + 1, runRule(fieldName, field, pos, st))

\* every nil value of the tree is removed, whatever field is being validated
removeNilEverywhere(fieldName, field, data) ==
    [k \in {n \in DOMAIN data : data[n] # Nil} |-> data[k]]

\* a nil or missing value is removed unless the field is nullable
removeNilNever(fieldName, field, data) == data

removeNil(fieldName, field, data) ==
    IF ~isNullable(field) /\ Get(data, fieldName) = Nil
    THEN Delete(data, fieldName) ELSE data

\* a field that is not required and has no value is not validated
skipsField(fieldName, field, data) ==
    /\ ~isRequired(field)
    /\ ~validateRequired(fieldName, Get(data, fieldName), <<>>, data).ok

\* the body of the loop over the rule set, for one field
validateField(isJSON, fieldName, field, st) ==
    LET d1 == removeNil(fieldName, field, st.data)
        st1 == [st EXCEPT !.data = d1]
    IN  IF skipsField(fieldName, field, d1) THEN st1
        ELSE LET c == convertArray(isJSON, fieldName, field, d1)
                 st2 == [st1 EXCEPT !.data = c.data,
                             !.log = Append(@, [ev |-> "convert", field |-> fieldName,
                                                before |-> Get(d1, fieldName),
                                                after |-> Get(c.data, fieldName),
                                                panicked |-> c.panic # NoPanic])]
             IN  IF c.panic # NoPanic THEN Panicked(st2, c.panic)
                 ELSE runRules(fieldName, field, 1, st2)

\* range over the rule set: Go visits the fields in an unspecified order
RECURSIVE validateFrom(_, _, _, _, _)
validateFrom(isJSON, rules, order, i, st) ==
    IF i > Len(order) \/ st.panic # NoPanic THEN st
    ELSE validateFrom(isJSON, rules, order, i + 1,
                      validateField(isJSON, order[i], rules[order[i]], st))

validate(isJSON, data, rules, order) ==
    validateFrom(isJSON, rules, order, 1,
                 [data |-> data, errors |-> <<>>, log |-> <<>>, panic |-> NoPanic])

\* a nil data map
NilData == [nilMap |-> TRUE]

\* the orders in which range may visit the keys of the rule set
Orders(S) ==
    {o \in [1..Cardinality(S) -> S] : \A i, j \in 1..Cardinality(S) : i # j => o[i] # o[j]}

Validate(isJSON, data, rules, order) ==
    /\ last = Idle
    /\ order \in Orders(DOMAIN rules)
    /\ last' =
         IF data = NilData
         THEN [op |-> "Validate", isJSON |-> isJSON, data0 |-> data, rules |-> rules,
               order |-> order, data |-> data,
               errors |-> ("error" :> <<IF isJSON THEN sMalformedJSON
                                        ELSE sMalformedRequest>>),
               log |-> <<>>, panic |-> NoPanic]
         ELSE LET st == validate(isJSON, data, rules, order)
              IN  [op |-> "Validate", isJSON |-> isJSON, data0 |-> data,
                   rules |-> rules, order |-> order, data |-> st.data,
                   errors |-> IF st.panic = NoPanic THEN st.errors ELSE <<>>,
                   log |-> st.log, panic |-> st.panic]
    /\ UNCHANGED <<validationRules, typeDependentMessageRules, calls>>

(***************************************************************************)
(* Inputs.                                                                 *)
(***************************************************************************)
\* the registrations of TestAddRule (a built-in name, a new name with a
\* behaviour that returns true, a type-dependent one), a second behaviour
\* for the new name, and the empty name
AddInputs ==
    { [name |-> sRequired, typeDependentMessage |-> FALSE, rule |-> "ruleFalse"],
      [name |-> sNewRule, typeDependentMessage |-> FALSE, rule |-> "ruleTrue"],
      [name |-> sNewRule, typeDependentMessage |-> TRUE, rule |-> "ruleFalse"],
      [name |-> <<>>, typeDependentMessage |-> FALSE, rule |-> "ruleTrue"] }

ParseTokens ==
    { sRequired, sMin \o <<":", "5">>, sInvalidCommaRule, sInvalidRule,
      <<">">> \o sMin \o <<":", "3">>, sNullable, sNewRule,
      <<">">> \o sNewRule, sMin \o <<":">>, sMin \o <<":", "1", ",", "2">>,
      <<>>, <<":", "5">>, <<">">>, <<">", ">">> \o sMin, <<",">> }

\* the longest slice among the data values
MaxLen == 2

\* the sequences over S of length at most n
SeqsUpTo(S, n) == UNION {[1..m -> S] : m \in 0..n}

Strings == {<<>>, sHi, sTwelve, sHello}

Scalars == {StringV(x) : x \in Strings} \cup {Float64V(12), Float64V(2), BoolV(TRUE)}

\* a form decoder yields []string, a JSON decoder []interface{}
Slices ==
    {SliceV(t, es) : t \in {"string", "interface"},
                     es \in SeqsUpTo({StringV(sHi), StringV(sTwelve), StringV(sHello)}, MaxLen)}

\* what the data tree may hold for field "f" and for field "g"
ValuesF == {Absent, Nil} \cup Scalars \cup Slices

ValuesG == {Absent, StringV(sTwelve)}

DataTree(vf, vg) ==
    LET present == {k \in {"f", "g"} : (IF k = "f" THEN vf ELSE vg) # Absent}
    IN  [k \in present |-> IF k = "f" THEN vf ELSE vg]

tMin3 == sMin \o <<":", "3">>

tEachMin3 == <<">">> \o sMin \o <<":", "3">>

tEachNumeric == <<">">> \o sNumeric

tEachNewRule == <<">">> \o sNewRule

tSameG == sSame \o <<":", "g">>

tEachSameG == <<">">> \o tSameG

\* the rule lists of field "f"
RuleListsF ==
    { <<sNumeric>>,
      <<sRequired, sNullable, sNumeric>>,
      <<sRequired, sArray>>,
      <<sRequired, sArray, tEachMin3>>,
      <<sRequired, tEachMin3>>,
      <<sRequired, tMin3>>,
      <<sRequired, sNumeric, tMin3>>,
      <<sRequired, tMin3, sNumeric>>,
      <<sNullable, sNumeric>>,
      <<sRequired, sNumeric, sNullable>>,
      <<sRequired, sNullable, sArray>>,
      <<sRequired, tEachNumeric>>,
      <<sArray>>,
      <<sRequired, sString, sNewRule>>,
      <<sRequired, tEachNewRule>>,
      <<sRequired, sMin>>,
      <<sInvalidCommaRule>>,
      <<sRequired, tSameG>>,
      <<sRequired, tEachSameG>>,
      <<sRequired, sNumeric, sNullable, tMin3>> }

\* the rule lists of field "g"
RuleListsG == { <<sNumeric>> }

NoRules == <<>>

RuleSetOf(lf, lg) ==
    LET named == {k \in {"f", "g"} : (IF k = "f" THEN lf ELSE lg) # NoRules}
    IN  [k \in named |-> IF k = "f" THEN lf ELSE lg]

Init ==
    /\ validationRules = InitValidationRules
    /\ typeDependentMessageRules = InitTypeDependentMessageRules
    /\ last = Idle
    /\ calls = <<>>

\* the data trees given to Validate, the nil map among them
DataTrees == {DataTree(vf, vg) : vf \in ValuesF, vg \in ValuesG} \cup {NilData}

\* the rule sets given to Validate
RuleSets == {RuleSetOf(lf, lg) : lf \in RuleListsF \cup {NoRules}, lg \in RuleListsG \cup {NoRules}}

\* a call starts only when no call is in progress: the inputs of a call
\* are drawn from S then, and from nothing otherwise
WhenIdle(S) == IF last = Idle /\ calls = <<>> THEN S ELSE {}

Next ==
    \/ \E inp \in WhenIdle(AddInputs) :
           AddRule(inp.name, inp.typeDependentMessage, inp.rule)
    \/ \E rule \in WhenIdle(ParseTokens) : ParseRule(rule)
    \/ \E isJSON \in WhenIdle(BOOLEAN), data \in DataTrees, rules \in RuleSets :
           \E order \in Orders(DOMAIN rules) : Validate(isJSON, data, rules, order)
    \/ Return

Spec == Init /\ [][Next]_vars

(***************************************************************************)
(* The date-comparison validators: After and AfterEqual hold a reference   *)
(* instant, AfterField and AfterEqualField hold a path that is resolved    *)
(* against the root of the data tree when the value is validated.  An      *)
(* instant is a number; a path is the sequence of its segments, "[]"       *)
(* marking the segment whose elements are all addressed.                   *)
(***************************************************************************)
TimeV(t) == [kind |-> "time.Time", t |-> t]

NoPath == <<>>

After(ref) == [name |-> "after", strict |-> TRUE, ref |-> ref, path |-> NoPath]

AfterEqual(ref) ==
    [name |-> "after_equal", strict |-> FALSE, ref |-> ref, path |-> NoPath]

AfterField(path) == [name |-> "after", strict |-> TRUE, ref |-> Nil, path |-> path]

AfterEqualField(path) ==
    [name |-> "after_equal", strict |-> FALSE, ref |-> Nil, path |-> path]

\* "object.field[]"
PathObjectFieldEach ==
    <<[name |-> "object", each |-> FALSE], [name |-> "field", each |-> TRUE]>>

makeAfterFieldData(ref) == [object |-> [field |-> ref]]

\* the values the path addresses in the tree, in order
RECURSIVE walkPath(_, _, _)
walkPath(path, i, node) ==
    IF i > Len(path) THEN <<node>>
    ELSE IF path[i].each
    THEN LET list == node[path[i].name]
             RECURSIVE each(_)
             each(k) == IF k > Len(list) THEN <<>>
                        ELSE walkPath(path, i + 1, list[k]) \o each(k + 1)
         IN  each(1)
    ELSE walkPath(path, i + 1, node[path[i].name])

\* the comparison passes for one reference only
validateDateComparisonAnyReference(value, references, strict) ==
    /\ value.kind = "time.Time"
    /\ \E i \in 1..Len(references) :
          /\ references[i].kind = "time.Time"
          /\ IF strict THEN value.t > references[i].t
             ELSE value.t >= references[i].t

\* the value is an instant and compares against every reference
validateDateComparison(value, references, strict) ==
    /\ value.kind = "time.Time"
    /\ \A i \in 1..Len(references) :
          /\ references[i].kind = "time.Time"
          /\ IF strict THEN value.t > references[i].t
             ELSE value.t >= references[i].t

\* v.Validate(&Context{Value: value, Data: data})
dateValidate(v, value, data) ==
    validateDateComparison(
        value,
        IF v.path = NoPath THEN <<v.ref>> ELSE walkPath(v.path, 1, data),
        v.strict)

\* a validator with a fixed reference validates a value
ValidateDate(v, value) ==
    /\ last = Idle
    /\ last' = [op |-> "dateValidate", validator |-> v, value |-> value,
                refs |-> <<v.ref>>, result |-> dateValidate(v, value, <<>>)]
    /\ UNCHANGED <<validationRules, typeDependentMessageRules, calls>>

\* a validator with a path validates a value against the tree holding refs
ValidateDateField(v, value, refs) ==
    /\ last = Idle
    /\ last' = [op |-> "dateValidate", validator |-> v, value |-> value,
                refs |-> refs,
                result |-> dateValidate(v, value, makeAfterFieldData(refs))]
    /\ UNCHANGED <<validationRules, typeDependentMessageRules, calls>>

\* the latest reference instant
MaxTime == 3

\* the most elements of the referenced array
MaxRefs == 2

RefTimes == {TimeV(t) : t \in 1..MaxTime}

\* an instant before, between, at or after the references, or no instant:
\* a string, a rune, an integer, a float, a sequence, a boolean, nil
Candidates ==
    {TimeV(t) : t \in 0..(MaxTime + 1)}
    \cup {StringV(sString), [kind |-> "int32", num |-> 97], [kind |-> "int", num |-> 2],
          Float64V(2), SliceV("string", <<StringV(sString)>>), BoolV(TRUE), Nil}

RefLists == SeqsUpTo(RefTimes, MaxRefs) \ {<<>>}

NextDate ==
    \/ \E ref \in WhenIdle(RefTimes), value \in Candidates :
           \E v \in {After(ref), AfterEqual(ref)} : ValidateDate(v, value)
    \/ \E refs \in WhenIdle(RefLists), value \in Candidates :
           \E v \in {AfterField(PathObjectFieldEach),
                     AfterEqualField(PathObjectFieldEach)} :
               ValidateDateField(v, value, refs)
    \/ Return

SpecDate == Init /\ [][NextDate]_vars

(***************************************************************************)
(* Two calls of Validate that run concurrently.  They share the registry   *)
(* and one RuleSet; each has its own request, data tree and locals         *)
(* (errors, the field and the token its loops have reached).  A step of a  *)
(* call is the part of validate before the rule loop, for one field, or    *)
(* one iteration of the rule loop; the steps of the two calls interleave   *)
(* in any order.  No rule is registered while a call runs.                 *)
(***************************************************************************)
\* the locals of a call that enters validate; i is the place in the order
\* of the fields and pos the token of the field's rule list that comes next
\* (0 before the field's rule loop)
beginCall(isJSON, data, rules, order) ==
    [isJSON |-> isJSON, data0 |-> data, rules |-> rules, order |-> order,
     i |-> 1, pos |-> 0,
     st |-> [data |-> data, errors |-> <<>>, log |-> <<>>, panic |-> NoPanic]]

callDone(c) == c.st.panic # NoPanic \/ c.i > Len(c.order)

\* both calls work on the data tree of the first call
dataOfFirst(k) == calls[1].st.data

\* the data tree of call k
dataOf(k) == calls[k].st.data

\* the next step of call k
callStep(k) ==
    LET c == [calls[k] EXCEPT !.st.data = dataOf(k)]
        fieldName == c.order[c.i]
        field == c.rules[fieldName]
        nextField == [c EXCEPT !.i = @ + 1, !.pos = 0]
    IN  IF c.pos = 0
        THEN LET d1 == removeNil(fieldName, field, c.st.data)
                 st1 == [c.st EXCEPT !.data = d1]
             IN  IF skipsField(fieldName, field, d1)
                 THEN [nextField EXCEPT !.st = st1]
                 ELSE LET conv == convertArray(c.isJSON, fieldName, field, d1)
                          st2 == [st1 EXCEPT
                                    !.data = conv.data,
                                    !.log = Append(@, [ev |-> "convert",
                                                       field |-> fieldName,
                                                       before |-> Get(d1, fieldName),
                                                       after |-> Get(conv.data, fieldName),
                                                       panicked |-> conv.panic # NoPanic])]
                      IN  IF conv.panic # NoPanic
                          THEN [c EXCEPT !.st = Panicked(st2, conv.panic)]
                          ELSE [c EXCEPT !.st = st2, !.pos = 1]
        ELSE IF c.pos > Len(field) THEN nextField
        ELSE IF field[c.pos] = sNullable
        THEN (IF Get(c.st.data, fieldName) = Nil THEN nextField
              ELSE [c EXCEPT !.pos = @ + 1])
        ELSE [c EXCEPT !.st = runRule(fieldName, field, c.pos, c.st), !.pos = @ + 1]

\* two requests arrive: both handlers call Validate with the same RuleSet
BeginCalls(rules, json1, data1, order1, json2, data2, order2) ==
    /\ last = Idle /\ calls = <<>>
    /\ order1 \in Orders(DOMAIN rules) /\ order2 \in Orders(DOMAIN rules)
    /\ calls' = <<beginCall(json1, data1, rules, order1),
                  beginCall(json2, data2, rules, order2)>>
    /\ UNCHANGED <<validationRules, typeDependentMessageRules, last>>

\* call k takes its next step
Step(k) ==
    /\ k \in DOMAIN calls
    /\ ~callDone(calls[k])
    /\ calls' = [calls EXCEPT ![k] = callStep(k)]
    /\ UNCHANGED <<validationRules, typeDependentMessageRules, last>>

\* both calls have returned or failed
EndCalls ==
    /\ calls # <<>>
    /\ \A k \in DOMAIN calls : callDone(calls[k])
    /\ calls' = <<>>
    /\ UNCHANGED <<validationRules, typeDependentMessageRules, last>>

\* the data trees of the concurrent calls
ConcurrentDataTrees ==
    { DataTree(StringV(sTwelve), StringV(sTwelve)),
      DataTree(StringV(sHi), Absent),
      DataTree(SliceV("interface", <<StringV(sTwelve), StringV(sHi)>>), StringV(sTwelve)),
      DataTree(Nil, StringV(sTwelve)) }

\* the rule sets they share
ConcurrentRuleSets ==
    { RuleSetOf(<<sRequired, sNumeric, tMin3>>, <<sNumeric>>),
      RuleSetOf(<<sRequired, tEachNumeric>>, <<sNumeric>>),
      RuleSetOf(<<sRequired, sNullable, sNewRule>>, NoRules),
      RuleSetOf(<<sRequired, tSameG>>, <<sNumeric>>) }

NextConcurrent ==
    \/ \E inp \in WhenIdle(AddInputs) :
           AddRule(inp.name, inp.typeDependentMessage, inp.rule)
    \/ Return
    \/ \E rules \in WhenIdle(ConcurrentRuleSets) :
           \E data1, data2 \in ConcurrentDataTrees, json1, json2 \in BOOLEAN :
               \E order1, order2 \in Orders(DOMAIN rules) :
                   BeginCalls(rules, json1, data1, order1, json2, data2, order2)
    \/ \E k \in DOMAIN calls : Step(k)
    \/ EndCalls

SpecConcurrent == Init /\ [][NextConcurrent]_vars

(***************************************************************************)
(* What the claims read off a finished call.                               *)
(***************************************************************************)
IsValidate == last.op = "Validate" /\ last.data0 # NilData

\* the events of the call's record that satisfy Test
Events(Test(_)) == SelectSeq(last.log, Test)

HasToken(list, token) == \E i \in 1..Len(list) : list[i] = token

FirstPos(list, token) ==
    CHOOSE i \in 1..Len(list) : list[i] = token /\ \A j \in 1..(i - 1) : list[j] # token

\* the tokens of field f that the run reached, evaluated or reported on
Touched(f) ==
    {i \in 1..Len(last.log) :
        last.log[i].field = f /\ last.log[i].ev \in {"token", "rule", "msg"}}

(***************************************************************************)
(* C1: registering a rule under a name that is already in the registry     *)
(* fails fatally and leaves the registry unchanged: the name keeps the     *)
(* behaviour of its first registration and the list of type-dependent rule *)
(* names is not extended.                                                  *)
(***************************************************************************)
C1_DuplicateRegistrationFails ==
    [][(last = Idle /\ last'.op = "AddRule"
           /\ last'.name \in DOMAIN validationRules)
        => /\ last'.panic # NoPanic
           /\ validationRules' = validationRules
           /\ typeDependentMessageRules' = typeDependentMessageRules]_vars

\* a second registration of a name added earlier, with another behaviour and
\* the type-dependent flag set, has failed
C1_Witness ==
    /\ last.op = "AddRule" /\ last.panic # NoPanic
    /\ last.name = sNewRule
    /\ last.typeDependentMessage
    /\ validationRules[sNewRule] # last.rule
    /\ ~Contains(typeDependentMessageRules, sNewRule)

(***************************************************************************)
(* C2: parseRule(token) equals the reference: a token with no ':' and a    *)
(* ',' fails fatally; otherwise the candidate name is the text before the  *)
(* first ':' (the whole token when there is none), the parameters are the  *)
(* text after it split on ',' (none when there is no ':'), a leading '>'   *)
(* is stripped and sets appliesPerElement; a name that is not registered   *)
(* fails fatally, and otherwise (name, appliesPerElement, parameters) is   *)
(* returned.                                                               *)
(***************************************************************************)
C2_Reference(token) ==
    LET colons == {i \in 1..Len(token) : token[i] = ":"}
        first == CHOOSE i \in colons : \A j \in colons : i <= j
        candidate == IF colons = {} THEN token ELSE SubSeq(token, 1, first - 1)
        parameters == IF colons = {} THEN <<>>
                      ELSE Split(SubSeq(token, first + 1, Len(token)), ",")
        perElement == Len(candidate) > 0 /\ candidate[1] = ">"
        name == IF perElement THEN Tail(candidate) ELSE candidate
    IN  IF colons = {} /\ \E i \in 1..Len(token) : token[i] = ","
        THEN [fatal |-> TRUE]
        ELSE IF name \notin DOMAIN validationRules THEN [fatal |-> TRUE]
        ELSE [fatal |-> FALSE, name |-> name, appliesPerElement |-> perElement,
              parameters |-> parameters]

C2_ParseRuleEqualsReference ==
    last.op = "parseRule" =>
        LET got == last.result
            want == C2_Reference(last.rule)
        IN  /\ (got.panic # NoPanic) = want.fatal
            /\ ~want.fatal =>
                  /\ got.ruleName = want.name
                  /\ got.validatesArray = want.appliesPerElement
                  /\ got.params = want.parameters

(***************************************************************************)
(* C3: a field whose rule list has neither required nor nullable and whose *)
(* value is nil or absent: after Validate its key is absent from the data  *)
(* tree, none of its rules has been evaluated and Errors has no entry for  *)
(* it.                                                                     *)
(***************************************************************************)
C3_NilFieldRemovedAndSkipped ==
    (IsValidate /\ last.panic = NoPanic) =>
        \A f \in DOMAIN last.rules :
            (/\ ~HasToken(last.rules[f], sRequired)
             /\ ~HasToken(last.rules[f], sNullable)
             /\ Get(last.data0, f) = Nil)
            => /\ f \notin DOMAIN last.data
               /\ Touched(f) = {}
               /\ f \notin DOMAIN last.errors

\* the value was present and nil, under the rule list [numeric]
C3_Witness ==
    /\ IsValidate /\ last.panic = NoPanic
    /\ "f" \in DOMAIN last.rules /\ last.rules["f"] = <<sNumeric>>
    /\ "f" \in DOMAIN last.data0 /\ last.data0["f"] = Nil
    /\ "f" \notin DOMAIN last.data

(***************************************************************************)
(* C4: a field whose rule list has nullable and whose value is present and *)
(* nil keeps its key with the value nil, and no rule token after the       *)
(* nullable marker is evaluated; under [required, nullable, numeric]       *)
(* Errors has no entry for it.                                             *)
(***************************************************************************)
C4_NullableKeepsNilAndStops ==
    IsValidate =>
        \A f \in DOMAIN last.rules :
            (/\ HasToken(last.rules[f], sNullable)
             /\ f \in DOMAIN last.data0 /\ last.data0[f] = Nil)
            => /\ f \in DOMAIN last.data /\ last.data[f] = Nil
               /\ \A i \in Touched(f) :
                     last.log[i].pos < FirstPos(last.rules[f], sNullable)
               /\ (last.rules[f] = <<sRequired, sNullable, sNumeric>>
                     /\ last.panic = NoPanic)
                  => f \notin DOMAIN last.errors

\* [required, nullable, numeric] on a nil value: required was evaluated,
\* numeric was not
C4_Witness ==
    /\ IsValidate /\ last.panic = NoPanic
    /\ "f" \in DOMAIN last.rules
    /\ last.rules["f"] = <<sRequired, sNullable, sNumeric>>
    /\ "f" \in DOMAIN last.data0 /\ last.data0["f"] = Nil
    /\ \E i \in Touched("f") : last.log[i].ev = "rule" /\ last.log[i].pos = 1
    /\ "f" \in DOMAIN last.data

IsPerElement(token) == Len(token) > 0 /\ token[1] = ">"

TokenEvents(f, pos) ==
    Events(LAMBDA e : e.ev = "token" /\ e.field = f /\ e.pos = pos)

ElementEvents(f, pos) ==
    Events(LAMBDA e : e.ev = "rule" /\ e.field = f /\ e.pos = pos /\ e.index > 0)

Messages(f, pos) ==
    Events(LAMBDA e : e.ev = "msg" /\ e.field = f /\ e.pos = pos)

MessagesOf(f) == Events(LAMBDA e : e.ev = "msg" /\ e.field = f)

(***************************************************************************)
(* C5: a per-element rule token on a collection runs the rule on the       *)
(* elements in index order and stops at the first failing element: no      *)
(* element after it is evaluated and exactly one message is appended to    *)
(* the field's errors for the token; when every element passes no message  *)
(* is appended.                                                            *)
(***************************************************************************)
C5_PerElementStopsAtFirstFailure ==
    IsValidate =>
        \A f \in DOMAIN last.rules :
            /\ \A pos \in 1..Len(last.rules[f]) :
                (/\ IsPerElement(last.rules[f][pos])
                 /\ Len(TokenEvents(f, pos)) > 0
                 /\ TokenEvents(f, pos)[1].value.kind = "slice")
                => LET list == TokenEvents(f, pos)[1].value
                       ev == ElementEvents(f, pos)
                       failed == {i \in 1..Len(ev) : ~ev[i].ok /\ ~ev[i].panicked}
                   IN  /\ Len(ev) <= Len(list.elems)
                       /\ \A i \in 1..Len(ev) :
                             ev[i].index = i /\ ev[i].value = list.elems[i]
                       /\ \A i \in failed : i = Len(ev)
                       /\ Len(Messages(f, pos)) = IF failed = {} THEN 0 ELSE 1
                       /\ (failed = {} /\ last.panic = NoPanic)
                          => Len(ev) = Len(list.elems)
            /\ last.panic = NoPanic =>
                  Len(MessagesOf(f)) =
                      IF f \in DOMAIN last.errors THEN Len(last.errors[f]) ELSE 0

\* two elements would fail, the first one did and the second was not evaluated
C5_Witness ==
    /\ IsValidate /\ last.panic = NoPanic
    /\ "f" \in DOMAIN last.rules /\ last.rules["f"] = <<sRequired, tEachMin3>>
    /\ last.data0["f"].kind = "slice"
    /\ last.data0["f"].elems = <<StringV(sHi), StringV(sTwelve)>>
    /\ Len(ElementEvents("f", 2)) = 1
    /\ Len(last.errors["f"]) = 1

(***************************************************************************)
(* C6: a per-element rule token on a field whose current value is not a    *)
(* collection (a scalar, nil, an absent key) fails fatally instead of      *)
(* adding an entry to Errors, before the rule behaviour is invoked.        *)
(***************************************************************************)
C6_PerElementOnNonCollectionPanics ==
    IsValidate =>
        \A i \in 1..Len(last.log) :
            (/\ last.log[i].ev = "token"
             /\ IsPerElement(last.rules[last.log[i].field][last.log[i].pos])
             /\ last.log[i].value.kind # "slice")
            => /\ last.panic # NoPanic
               /\ i = Len(last.log)
               /\ last.errors = <<>>

\* the token was reached with a nil value, and in another run with a scalar
C6_Witness ==
    /\ IsValidate /\ last.panic # NoPanic
    /\ Len(last.log) > 0
    /\ last.log[Len(last.log)].ev = "token"
    /\ last.rules["f"] = <<sRequired, tEachMin3>>
    /\ last.log[Len(last.log)].pos = 2
    /\ last.log[Len(last.log)].value = StringV(sHello)

(***************************************************************************)
(* C7: when the request is not JSON, the rule list has array and the       *)
(* field's value is not a collection, Validate replaces the value by a     *)
(* one-element collection holding it before any rule of the field runs;    *)
(* when the request is JSON, or the list has no array, or the value is a   *)
(* collection already, the step leaves the value unchanged.                *)
(***************************************************************************)
C7_ScalarWrappedBeforeRules ==
    IsValidate =>
        \A i \in 1..Len(last.log) :
            last.log[i].ev = "convert" =>
                /\ IF /\ ~last.isJSON
                      /\ HasToken(last.rules[last.log[i].field], sArray)
                      /\ last.log[i].before.kind # "slice"
                   THEN /\ ~last.log[i].panicked
                        /\ last.log[i].after.kind = "slice"
                        /\ last.log[i].after.elems = <<last.log[i].before>>
                   ELSE last.log[i].after = last.log[i].before
                /\ \A j \in Touched(last.log[i].field) : i < j

(***************************************************************************)
(* C8: Validate fails fatally only for a configuration error of the rule   *)
(* set.  For a rule set whose tokens are well-formed, registered,          *)
(* correctly parameterised and not per-element, whatever the data tree and *)
(* the transport, Validate returns an Errors result, and every failed      *)
(* check appears in it.                                                    *)
(***************************************************************************)
C8_WellConfiguredToken(token) ==
    \/ token = sNullable
    \/ LET p == parseRule(token)
       IN  /\ p.panic = NoPanic
           /\ ~p.validatesArray
           /\ validationRules[p.ruleName] = "validateMin"
                 => Len(p.params) >= 1 /\ ~ParseFloat(p.params[1]).err

C8_OnlyConfigurationErrorsAreFatal ==
    (/\ IsValidate
     /\ \A f \in DOMAIN last.rules : \A pos \in 1..Len(last.rules[f]) :
           C8_WellConfiguredToken(last.rules[f][pos]))
    => /\ last.panic = NoPanic
       /\ \A i \in 1..Len(last.log) :
             (last.log[i].ev = "rule" /\ ~last.log[i].ok)
             => /\ last.log[i].field \in DOMAIN last.errors
                /\ i < Len(last.log) /\ last.log[i + 1].ev = "msg"

(***************************************************************************)
(* C9: the message key of a failed rule is "validation.rules." + ruleName, *)
(* then "." + semanticType iff the rule is type-dependent, then ".array"   *)
(* iff the check ran per element; the semantic type is that of the field's *)
(* value for a whole-field check and that of the failing element for a     *)
(* per-element check.                                                      *)
(***************************************************************************)
C9_Key(ruleName, value, perElement) ==
    sNamespace \o ruleName
    \o (IF Contains(typeDependentMessageRules, ruleName)
        THEN <<".">> \o GetFieldType(value) ELSE <<>>)
    \o (IF perElement THEN sDotArray ELSE <<>>)

C10_References ==
    IF last.validator.path = NoPath THEN {last.validator.ref}
    ELSE {last.refs[i] : i \in 1..Len(last.refs)}

C10_DateComparisonAgainstEveryReference ==
    last.op = "dateValidate" =>
        /\ last.result \in BOOLEAN
        /\ last.result =
              (/\ last.value.kind = "time.Time"
               /\ \A r \in C10_References :
                     IF last.validator.name = "after"
                     THEN last.value.t > r.t ELSE last.value.t >= r.t)
        /\ last.value.kind # "time.Time" => ~last.result
        /\ (last.value.kind = "time.Time"
              /\ \E r \in C10_References : r.t > last.value.t) => ~last.result
        /\ (last.value.kind = "time.Time"
              /\ last.value \in C10_References
              /\ \A r \in C10_References : r.t <= last.value.t)
           => last.result = (last.validator.name = "after_equal")

\* a candidate between the two references of a wildcard path fails the
\* inclusive variant
C10_Witness ==
    /\ last.op = "dateValidate"
    /\ last.validator = AfterEqualField(PathObjectFieldEach)
    /\ last.refs = <<TimeV(1), TimeV(3)>>
    /\ last.value = TimeV(2)
    /\ ~last.result

(***************************************************************************)
(* C11: the Errors result and the final data tree of a validation do not   *)
(* depend on the order in which the fields of the rule set are processed:  *)
(* the call in any other order returns iff this one did, with the same     *)
(* Errors and the same data tree.                                          *)
(***************************************************************************)
C11_OtherOrder(order) ==
    validate(last.isJSON, last.data0, last.rules, order)

C11_FieldOrderDoesNotMatter ==
    (IsValidate /\ last.data0 # NilData) =>
        \A order \in Orders(DOMAIN last.rules) :
            /\ (C11_OtherOrder(order).panic = NoPanic) = (last.panic = NoPanic)
            /\ last.panic = NoPanic =>
                  /\ C11_OtherOrder(order).errors = last.errors
                  /\ C11_OtherOrder(order).data = last.data

(***************************************************************************)
(* C12: a field's entry in Errors holds exactly one message per rule token *)
(* that was evaluated and failed, in the order of the tokens; a failing    *)
(* token does not stop the tokens after it, so k failing tokens give k     *)
(* messages, and a field with no failing token has no entry.               *)
(***************************************************************************)
C12_FailedPositions(f) ==
    {pos \in 1..Len(last.rules[f]) :
        \E i \in 1..Len(last.log) :
            /\ last.log[i].ev = "rule" /\ last.log[i].field = f
            /\ last.log[i].pos = pos /\ ~last.log[i].ok}

C12_OneMessagePerFailedToken ==
    (IsValidate /\ last.panic = NoPanic) =>
        \A f \in DOMAIN last.rules :
            LET failed == C12_FailedPositions(f)
                msgs == MessagesOf(f)
            IN  /\ Len(msgs) = Cardinality(failed)
                /\ \A i \in 1..Len(msgs) : msgs[i].pos \in failed
                /\ \A i, j \in 1..Len(msgs) : i < j => msgs[i].pos < msgs[j].pos
                /\ IF failed = {} THEN f \notin DOMAIN last.errors
                   ELSE /\ f \in DOMAIN last.errors
                        /\ last.errors[f] = [i \in 1..Len(msgs) |-> msgs[i].key]
                /\ \A pos \in failed : \A later \in (pos + 1)..Len(last.rules[f]) :
                      (\A n \in (pos + 1)..later : last.rules[f][n] # sNullable)
                      => Len(TokenEvents(f, later)) = 1

\* a short string fails numeric and min:3 and reports both, in that order
C12_Witness ==
    /\ IsValidate /\ last.panic = NoPanic
    /\ "f" \in DOMAIN last.rules
    /\ last.rules["f"] = <<sRequired, sNumeric, tMin3>>
    /\ "f" \in DOMAIN last.data0 /\ last.data0["f"] = StringV(sHi)
    /\ C12_FailedPositions("f") = {2, 3}
    /\ Len(last.errors["f"]) = 2
    /\ last.errors["f"][1] # last.errors["f"][2]
    /\ last.data["f"] = StringV(sHi)

(***************************************************************************)
(* C13: during a per-element check the value a rule leaves for an element  *)
(* is written back to the same index of the collection; when the check     *)
(* stops at a failing element the elements before it hold their coerced    *)
(* values, the failing element and the later ones their original values,   *)
(* and the length of the collection is unchanged.  Read off the calls      *)
(* whose per-element token is the last token of the field.                 *)
(***************************************************************************)
\* the value the rule of the token leaves for an element
C13_Coerced(f, token, value) ==
    LET p == parseRule(token)
    IN  Get(Apply(validationRules[p.ruleName], f, value, p.params, (f :> value)).form, f)

C13_PerElementWriteBack ==
    IsValidate =>
        \A f \in DOMAIN last.rules :
            LET pos == Len(last.rules[f])
            IN  (/\ IsPerElement(last.rules[f][pos])
                 /\ Len(TokenEvents(f, pos)) > 0
                 /\ TokenEvents(f, pos)[1].value.kind = "slice")
                => LET list == TokenEvents(f, pos)[1].value
                       ev == ElementEvents(f, pos)
                       passed == {i \in 1..Len(ev) : ev[i].ok}
                   IN  /\ last.panic # "reflect.Value.Set"
                       /\ last.panic = NoPanic =>
                             /\ last.data[f].kind = "slice"
                             /\ Len(last.data[f].elems) = Len(list.elems)
                             /\ \A i \in 1..Len(list.elems) :
                                   last.data[f].elems[i] =
                                       IF i \in passed
                                       THEN C13_Coerced(f, last.rules[f][pos], list.elems[i])
                                       ELSE list.elems[i]

(***************************************************************************)
(* C14: the executor changes the data tree only at keys that the rule set  *)
(* names: every other key is in the tree after Validate iff it was before, *)
(* with the same value, also when the call fails fatally.  A per-element   *)
(* rule is given a tree that holds the element alone, so its verdict is    *)
(* the one it gives without any other field, whatever the data tree holds. *)
(***************************************************************************)
C14_OnlyNamedFieldsChange ==
    IsValidate =>
        /\ \A k \in (DOMAIN last.data0 \cup DOMAIN last.data) \ DOMAIN last.rules :
              /\ k \in DOMAIN last.data0 /\ k \in DOMAIN last.data
              /\ last.data[k] = last.data0[k]
        /\ \A i \in 1..Len(last.log) :
              (last.log[i].ev = "rule" /\ last.log[i].index > 0 /\ ~last.log[i].panicked)
              => LET e == last.log[i]
                     p == parseRule(last.rules[e.field][e.pos])
                 IN  e.ok = Apply(validationRules[p.ruleName], e.field, e.value,
                                  p.params, (e.field :> e.value)).ok

\* the per-element check rewrites the first element of f and g, which the
\* rule set does not name, is as it was
C14_Witness ==
    /\ IsValidate /\ last.panic = NoPanic
    /\ DOMAIN last.rules = {"f"} /\ last.rules["f"] = <<sRequired, tEachNumeric>>
    /\ DOMAIN last.data0 = {"f", "g"}
    /\ last.data0["f"] = SliceV("interface", <<StringV(sTwelve), StringV(sHi)>>)
    /\ last.data0["g"] = StringV(sTwelve)
    /\ last.data["f"] = SliceV("interface", <<Float64V(12), StringV(sHi)>>)
    /\ last.data["g"] = StringV(sTwelve)

(***************************************************************************)
(* C15: the nullable marker ends the rule list by position.  For a field   *)
(* with required and nullable whose value is nil, in a call that returns,  *)
(* every token before the marker is evaluated against nil and the marker   *)
(* and the tokens after it are not reached; and with the marker moved one  *)
(* place later the field's messages are the same messages, then possibly   *)
(* more (when that call returns as well).                                  *)
(***************************************************************************)
C15_MessagesOf(errors, f) == IF f \in DOMAIN errors THEN errors[f] ELSE <<>>

\* the rule list with the tokens at n and n + 1 exchanged
C15_MovedLater(list, n) ==
    [i \in 1..Len(list) |->
        IF i = n THEN list[n + 1] ELSE IF i = n + 1 THEN list[n] ELSE list[i]]

C15_NullableShortCircuitsByPosition ==
    (IsValidate /\ last.panic = NoPanic) =>
        \A f \in DOMAIN last.rules :
            (/\ isRequired(last.rules[f]) /\ isNullable(last.rules[f])
             /\ Get(last.data0, f) = Nil)
            => LET list == last.rules[f]
                   n == FirstPos(list, sNullable)
                   moved == validate(last.isJSON, last.data0,
                                     [last.rules EXCEPT ![f] = C15_MovedLater(list, n)],
                                     last.order)
                   now == C15_MessagesOf(last.errors, f)
                   then == C15_MessagesOf(moved.errors, f)
               IN  /\ \A pos \in 1..(n - 1) :
                         /\ Len(TokenEvents(f, pos)) = 1
                         /\ TokenEvents(f, pos)[1].value = Nil
                         /\ \E i \in Touched(f) :
                               /\ last.log[i].ev = "rule" /\ last.log[i].pos = pos
                               /\ last.log[i].value = Nil
                   /\ \A i \in Touched(f) : last.log[i].pos < n
                   /\ (n < Len(list) /\ list[n + 1] # sNullable /\ moved.panic = NoPanic)
                      => /\ Len(now) <= Len(then)
                         /\ SubSeq(then, 1, Len(now)) = now

\* numeric, before the marker, reports on the nil value; min:3, after it, is
\* not reached
C15_Witness ==
    /\ IsValidate /\ last.panic = NoPanic
    /\ "f" \in DOMAIN last.rules
    /\ last.rules["f"] = <<sRequired, sNumeric, sNullable, tMin3>>
    /\ "f" \in DOMAIN last.data0 /\ last.data0["f"] = Nil
    /\ Len(last.errors["f"]) = 1
    /\ Len(TokenEvents("f", 2)) = 1 /\ Len(TokenEvents("f", 4)) = 0
    /\ "f" \in DOMAIN last.data /\ last.data["f"] = Nil

(***************************************************************************)
(* C16: two Validate calls that run concurrently over their own data trees *)
(* with one RuleSet and the same registry do not interfere: under every    *)
(* interleaving a call that has finished has the Errors, the data tree and *)
(* the fatal failure it has when it runs alone, and no step of a call      *)
(* changes the RuleSet the two calls hold or the registry.                 *)
(***************************************************************************)
C16_Alone(c) == validate(c.isJSON, c.data0, c.rules, c.order)

C16_AsAlone ==
    /\ \A k \in DOMAIN calls :
          callDone(calls[k]) =>
              /\ calls[k].st.panic = C16_Alone(calls[k]).panic
              /\ calls[k].st.errors = C16_Alone(calls[k]).errors
              /\ calls[k].st.data = C16_Alone(calls[k]).data
    /\ \A j, k \in DOMAIN calls : calls[j].rules = calls[k].rules

C16_ConcurrentCallsDoNotInterfere ==
    /\ []C16_AsAlone
    /\ [][calls # <<>> => /\ validationRules' = validationRules
                          /\ typeDependentMessageRules' = typeDependentMessageRules
                          /\ calls' # <<>> =>
                                \A k \in DOMAIN calls : calls'[k].rules = calls[k].rules]_vars

\* the second call has returned with a coerced tree and no error while the
\* first call, over another tree, is in the rule loop of its first field
C16_Witness ==
    /\ Len(calls) = 2
    /\ calls[1].data0 # calls[2].data0
    /\ ~callDone(calls[1]) /\ calls[1].i = 1 /\ calls[1].pos = 2
    /\ callDone(calls[2]) /\ calls[2].st.panic = NoPanic
    /\ calls[2].st.data # calls[2].data0
    /\ calls[2].st.errors = <<>>
    /\ Len(calls[1].st.log) > 0

====
